---------------------------- MODULE Spec2Model ----------------------------
(***************************************************************************)
(* A model of the phc crate: the PHC string parser (parser.rs), the raw    *)
(* record and its Display (raw.rs), the salt (salt.rs) and the parameter   *)
(* extraction framework (params.rs).                                       *)
(*                                                                         *)
(* Strings are sequences of one-character strings, byte strings are        *)
(* sequences of 0..255.  Option<T> is [some |-> FALSE] or                  *)
(* [some |-> TRUE, val |-> x].  A nom IResult is [ok |-> FALSE] (the       *)
(* recoverable Err::Error, the only error these combinators produce on a   *)
(* CompleteStr) or [ok |-> TRUE, rest |-> remaining input, out |-> value]. *)
(***************************************************************************)
EXTENDS Integers, Sequences, FiniteSets

VARIABLES
    rejectTrailingBits, \* the base64 dependency of the build: does decode reject non-zero trailing bits
    pc,                 \* position of the parse / build / display scenario
    raw,                \* the &str handed to parse_phc
    gen,                \* the parts the input was assembled from (or [kind |-> "text"])
    result,             \* Option<RawPHC>: the record parse_phc or from_parts returned
    remaining,          \* the input phc() left unconsumed (dropped by parse_phc's map)
    rendered,           \* the String produced by Display
    ppc,                \* position of the params.rs scenario
    decl,               \* the declared parameter set (a tuple of GenParam)
    rawList,            \* the &[(&str, &str)] handed to extract_param_set
    slice,              \* RawParamSlice.0: the pairs not yet consumed
    k,                  \* number of declared parameters already resolved
    acc,                \* the values resolved so far
    extracted,          \* Option<Params> returned by extract_param_set
    sval,               \* the value handed to GenParam::serialize
    stext,              \* Option<String> returned by serialize
    sback,              \* Option<T> returned by extract on that text
    spc,                \* position of the salt.rs scenario
    orig,               \* the Salt as it was constructed
    cur,                \* the Salt after the as_binary calls made so far
    calls,              \* number of as_binary calls made
    saltText            \* Option<String>: the rendering of cur

vars == <<rejectTrailingBits, pc, raw, gen, result, remaining, rendered,
          ppc, decl, rawList, slice, k, acc, extracted, sval, stext, sback,
          spc, orig, cur, calls, saltText>>

parserVars == <<rejectTrailingBits, pc, raw, gen, result, remaining, rendered>>
paramVars == <<ppc, decl, rawList, slice, k, acc, extracted, sval, stext, sback>>
saltVars == <<spc, orig, cur, calls, saltText>>

None == [some |-> FALSE]
Some(x) == [some |-> TRUE, val |-> x]

Err == [ok |-> FALSE]
Ok(i, o) == [ok |-> TRUE, rest |-> i, out |-> o]

Min(S) == CHOOSE x \in S : \A y \in S : x <= y

(***************************************************************************)
(* Character classes (parser.rs)                                           *)
(***************************************************************************)
Lower == {"a","b","c","d","e","f","g","h","i","j","k","l","m",
          "n","o","p","q","r","s","t","u","v","w","x","y","z"}
Upper == {"A","B","C","D","E","F","G","H","I","J","K","L","M",
          "N","O","P","Q","R","S","T","U","V","W","X","Y","Z"}
Digit == {"0","1","2","3","4","5","6","7","8","9"}

NameChars == Lower \cup Digit \cup {"-"}
ValueChars == Lower \cup Upper \cup Digit \cup {"/", "+", ".", "-"}
Base64Chars == Lower \cup Upper \cup Digit \cup {"/", "+"}

is_name_char(c) == c \in NameChars

\* a value charset that leaves out '.' and '-'
is_value_char_base64(c) == c \in Base64Chars

is_value_char(c) == c \in ValueChars

is_base_64_char(c) == c \in Base64Chars

(***************************************************************************)
(* base64 (the base64 crate, STANDARD_NO_PAD)                              *)
(***************************************************************************)
B64Table ==
    <<"A","B","C","D","E","F","G","H","I","J","K","L","M",
      "N","O","P","Q","R","S","T","U","V","W","X","Y","Z",
      "a","b","c","d","e","f","g","h","i","j","k","l","m",
      "n","o","p","q","r","s","t","u","v","w","x","y","z",
      "0","1","2","3","4","5","6","7","8","9","+","/">>

B64Symbols == {B64Table[n] : n \in 1..Len(B64Table)}

B64Index(c) == (CHOOSE n \in 1..Len(B64Table) : B64Table[n] = c) - 1

\* The bytes of the complete 4-symbol groups of enc.
RECURSIVE DecodeQuads(_)
DecodeQuads(enc) ==
    IF Len(enc) < 4 THEN <<>>
    ELSE LET n == B64Index(enc[1]) * 262144 + B64Index(enc[2]) * 4096
                  + B64Index(enc[3]) * 64 + B64Index(enc[4])
         IN  <<n \div 65536, (n \div 256) % 256, n % 256>>
             \o DecodeQuads(SubSeq(enc, 5, Len(enc)))

\* The number of characters of enc in front of its (at most two) trailing '='.
PayloadLen(enc) ==
    IF Len(enc) >= 1 /\ enc[Len(enc)] = "="
    THEN (IF Len(enc) >= 2 /\ enc[Len(enc) - 1] = "=" THEN Len(enc) - 2
          ELSE Len(enc) - 1)
    ELSE Len(enc)

\* The decoding of an input without padding.
\* strict: the decoder refuses a last symbol with non-zero unused bits
\* (base64 >= 0.10); earlier releases drop those bits silently.
decode_symbols(enc, strict) ==
    LET len  == Len(enc)
        left == len % 4
        tail == SubSeq(enc, len - left + 1, len)
        body == DecodeQuads(enc)
    IN  IF \E n \in 1..len : enc[n] \notin B64Symbols THEN None
        ELSE IF left = 1 THEN None
        ELSE IF left = 0 THEN Some(body)
        ELSE IF left = 2 THEN
            LET n == B64Index(tail[1]) * 64 + B64Index(tail[2])
            IN  IF strict /\ n % 16 # 0 THEN None
                ELSE Some(body \o <<n \div 16>>)
        ELSE
            LET n == B64Index(tail[1]) * 4096 + B64Index(tail[2]) * 64
                     + B64Index(tail[3])
            IN  IF strict /\ n % 4 # 0 THEN None
                ELSE Some(body \o <<n \div 1024, (n \div 4) % 256>>)

\* decode_config(enc, STANDARD_NO_PAD): Ok(bytes) as Some, Err(_) as None.
\* The NO_PAD of the configuration governs encoding only: the decoder takes
\* '=' padding or none.  A '=' is accepted only at the end of the input and
\* only as the third or fourth character of its group of four; the length,
\* padding included, must not be 1 mod 4.
decode_config(enc, strict) ==
    IF Len(enc) = 0 \/ enc[Len(enc)] # "=" THEN decode_symbols(enc, strict)
    ELSE IF Len(enc) % 4 = 1 THEN None
    ELSE IF \E i \in PayloadLen(enc)..(Len(enc) - 1) : i % 4 < 2 THEN None
    ELSE decode_symbols(SubSeq(enc, 1, PayloadLen(enc)), strict)

\* encode_config(bytes, STANDARD_NO_PAD)
RECURSIVE encode_config(_)
encode_config(bytes) ==
    IF Len(bytes) = 0 THEN <<>>
    ELSE IF Len(bytes) = 1 THEN
        LET n == bytes[1] * 16
        IN  <<B64Table[(n \div 64) + 1], B64Table[(n % 64) + 1]>>
    ELSE IF Len(bytes) = 2 THEN
        LET n == (bytes[1] * 256 + bytes[2]) * 4
        IN  <<B64Table[(n \div 4096) + 1], B64Table[((n \div 64) % 64) + 1],
              B64Table[(n % 64) + 1]>>
    ELSE
        LET n == bytes[1] * 65536 + bytes[2] * 256 + bytes[3]
        IN  <<B64Table[(n \div 262144) + 1], B64Table[((n \div 4096) % 64) + 1],
              B64Table[((n \div 64) % 64) + 1], B64Table[(n % 64) + 1]>>
            \o encode_config(SubSeq(bytes, 4, Len(bytes)))

(***************************************************************************)
(* Salt (salt.rs)                                                          *)
(***************************************************************************)
Ascii(text) == [tag |-> "Ascii", text |-> text]
Binary(bytes) == [tag |-> "Binary", bytes |-> bytes]

\* impl fmt::Display for Salt
SaltDisplay(salt) ==
    IF salt.tag = "Ascii" THEN salt.text ELSE encode_config(salt.bytes)

\* an as_binary that falls back to the default byte vector when decoding fails
as_binary_unwrap_or_default(s, strict) ==
    IF s.tag = "Ascii"
    THEN LET d == decode_config(s.text, strict)
         IN  IF d.some THEN Binary(d.val) ELSE Binary(<<>>)
    ELSE s

\* Salt::as_binary(self); strict is the decoder's treatment of trailing bits
as_binary(s, strict) ==
    IF s.tag = "Ascii"
    THEN LET d == decode_config(s.text, strict)
         IN  IF d.some THEN Binary(d.val) ELSE s
    ELSE s

(***************************************************************************)
(* SaltAndHash and RawPHC (raw.rs)                                         *)
(***************************************************************************)
Neither == [tag |-> "Neither"]
SaltOnly(salt) == [tag |-> "Salt", salt |-> salt]
Both(salt, hash) == [tag |-> "Both", salt |-> salt, hash |-> hash]

\* From<&str> / From<String> (Ascii) and From<Vec<u8>> / From<&[u8]> (Binary)
\* for Salt; the source value is [str |-> text] or [bin |-> bytes].
IntoSalt(t) == IF "str" \in DOMAIN t THEN Ascii(t.str) ELSE Binary(t.bin)

\* a from_option that loses the hash of a (salt, hash) pair
from_option_drops_hash(salt_and_hash) ==
    IF ~salt_and_hash.some THEN Neither
    ELSE SaltOnly(IntoSalt(salt_and_hash.val[1]))

\* SaltAndHash::from_option
from_option(salt_and_hash) ==
    IF ~salt_and_hash.some THEN Neither
    ELSE IF ~salt_and_hash.val[2].some
         THEN SaltOnly(IntoSalt(salt_and_hash.val[1]))
         ELSE Both(IntoSalt(salt_and_hash.val[1]), salt_and_hash.val[2].val)

\* SaltAndHash::salt
SaltOf(sh) == IF sh.tag = "Neither" THEN None ELSE Some(sh.salt)

\* SaltAndHash::hash
HashOf(sh) == IF sh.tag = "Both" THEN Some(sh.hash) ELSE None

\* impl fmt::Display for SaltAndHash
SaltAndHashDisplay(sh) ==
    IF sh.tag = "Neither" THEN <<>>
    ELSE IF sh.tag = "Salt" THEN SaltDisplay(sh.salt)
    ELSE SaltDisplay(sh.salt) \o <<"$">> \o encode_config(sh.hash)

\* RawPHC::from_parts
from_parts(i, p, sh) == [id |-> i, params |-> p, salt_and_hash |-> sh]

\* RawPHC::salt and RawPHC::hash
RawPHCSalt(r) == SaltOf(r.salt_and_hash)
RawPHCHash(r) == HashOf(r.salt_and_hash)

\* the params[1..] loop of Display for RawPHC
RECURSIVE ParamsTailDisplay(_)
ParamsTailDisplay(ps) ==
    IF ps = <<>> THEN <<>>
    ELSE <<",">> \o Head(ps)[1] \o <<"=">> \o Head(ps)[2]
         \o ParamsTailDisplay(Tail(ps))

\* impl fmt::Display for RawPHC
RawPHCDisplay(r) ==
    <<"$">> \o r.id
    \o (IF Len(r.params) > 0
        THEN <<"$">> \o r.params[1][1] \o <<"=">> \o r.params[1][2]
             \o ParamsTailDisplay(Tail(r.params))
        ELSE <<>>)
    \o SaltAndHashDisplay(r.salt_and_hash)

(***************************************************************************)
(* The nom grammar (parser.rs)                                             *)
(***************************************************************************)
\* char!(c)
Char(c, i) == IF Len(i) > 0 /\ i[1] = c THEN Ok(Tail(i), c) ELSE Err

\* the length of the longest prefix of i made of positions in hits (the
\* positions whose character satisfies the predicate)
PrefixLen(i, hits) ==
    LET stops == (1..Len(i)) \ hits
    IN  IF stops = {} THEN Len(i) ELSE Min(stops) - 1

\* take_while1!(pred) on a CompleteStr, hits being the positions of i whose
\* character satisfies pred
TakeWhile1(i, hits) ==
    LET n == PrefixLen(i, hits)
    IN  IF n = 0 THEN Err ELSE Ok(SubSeq(i, n + 1, Len(i)), SubSeq(i, 1, n))

\* named!(name)
name(i) == TakeWhile1(i, {n \in 1..Len(i) : is_name_char(i[n])})

\* named!(value)
value(i) == TakeWhile1(i, {n \in 1..Len(i) : is_value_char(i[n])})

\* named!(base_64): map_res! turns a decode error into Err::Error
base_64(i, strict) ==
    LET t == TakeWhile1(i, {n \in 1..Len(i) : is_base_64_char(i[n])})
    IN  IF ~t.ok THEN Err
        ELSE LET d == decode_config(t.out, strict)
             IN  IF d.some THEN Ok(t.rest, d.val) ELSE Err

\* named!(id)
id(i) ==
    LET c == Char("$", i)
    IN  IF ~c.ok THEN Err ELSE name(c.rest)

\* separated_pair!(name, char!('='), value) mapped to (String, String)
Pair(i) ==
    LET n == name(i)
    IN  IF ~n.ok THEN Err
        ELSE LET e == Char("=", n.rest)
             IN  IF ~e.ok THEN Err
                 ELSE LET v == value(e.rest)
                      IN  IF ~v.ok THEN Err ELSE Ok(v.rest, <<n.out, v.out>>)

\* the loop of separated_nonempty_list!: a separator that is not followed
\* by an element ends the list before the separator
RECURSIVE SeparatedLoop(_, _)
SeparatedLoop(input, res) ==
    LET s == Char(",", input)
    IN  IF ~s.ok THEN Ok(input, res)
        ELSE LET e == Pair(s.rest)
             IN  IF ~e.ok THEN Ok(input, res)
                 ELSE SeparatedLoop(e.rest, Append(res, e.out))

\* separated_nonempty_list!(char!(','), pair)
SeparatedNonemptyList(i) ==
    LET first == Pair(i)
    IN  IF ~first.ok THEN Err ELSE SeparatedLoop(first.rest, <<first.out>>)

\* named!(params): or_else! replaces an Err::Error by an empty Vec and the
\* untouched input
params(i) ==
    LET c == Char("$", i)
        l == IF c.ok THEN SeparatedNonemptyList(c.rest) ELSE Err
    IN  IF l.ok THEN l ELSE Ok(i, <<>>)

\* opt!(preceded!(char!('$'), base_64))
OptHash(i, strict) ==
    LET c == Char("$", i)
        b == IF c.ok THEN base_64(c.rest, strict) ELSE Err
    IN  IF b.ok THEN Ok(b.rest, Some(b.out)) ELSE Ok(i, None)

\* named!(salt_and_hash)
salt_and_hash(i, strict) ==
    LET c == Char("$", i)
        v == IF c.ok THEN value(c.rest) ELSE Err
    IN  IF ~v.ok THEN Ok(i, from_option(None))
        ELSE LET h == OptHash(v.rest, strict)
             IN  Ok(h.rest, from_option(Some(<<[str |-> v.out], h.out>>)))

\* named!(phc)
phc(i, strict) ==
    LET d == id(i)
    IN  IF ~d.ok THEN Err
        ELSE LET p  == params(d.rest)
                 sh == salt_and_hash(p.rest, strict)
             IN  Ok(sh.rest, from_parts(d.out, p.out, sh.out))

\* parse_phc: phc(CompleteStr(raw)).map(|x| x.1)
parse_phc(s, strict) ==
    LET r == phc(s, strict)
    IN  IF r.ok THEN Some(r.out) ELSE None

\* impl FromStr for RawPHC
from_str(s, strict) == parse_phc(s, strict)


(***************************************************************************)
(* Inputs                                                                  *)
(***************************************************************************)
MaxParams == 2
MaxLen == 4

\* all sequences over S of length 0..n
SeqsUpTo(S, n) == UNION {[1..m -> S] : m \in 0..n}

GenIds == {<<"a">>, <<"x", "-", "1">>}
GenNames == {<<"i">>, <<"m">>}
GenValues == {<<"1">>, <<"A", ".">>}
GenSalts == {<<"a">>, <<"A", "Q">>, <<"a", ".", "b">>}
\* hash tokens: [0]; "hello"; non-zero trailing bits; a length of 1 mod 4
GenHashes == {<<"A", "A">>, <<"a", "G", "V", "s", "b", "G", "8">>,
              <<"A", "B">>, <<"A">>}
GenBytes == {<<>>, <<0>>, <<104, 105>>, <<255, 0, 16, 7>>}

Parts(i, ps, s, h) == [kind |-> "parts", id |-> i, params |-> ps, salt |-> s, hash |-> h]

\* "$id", "$k=v,k=v" when there are pairs, "$salt", "$hash"
RECURSIVE JoinPairs(_)
JoinPairs(ps) ==
    IF ps = <<>> THEN <<>>
    ELSE Head(ps)[1] \o <<"=">> \o Head(ps)[2]
         \o (IF Len(ps) > 1 THEN <<",">> ELSE <<>>) \o JoinPairs(Tail(ps))

Assemble(g) ==
    <<"$">> \o g.id
    \o (IF g.params = <<>> THEN <<>> ELSE <<"$">> \o JoinPairs(g.params))
    \o (IF g.salt.some THEN <<"$">> \o g.salt.val ELSE <<>>)
    \o (IF g.hash.some THEN <<"$">> \o g.hash.val ELSE <<>>)

SaltHashChoices(salts, hashes) ==
    {<<None, None>>}
    \cup {<<Some(s), None>> : s \in salts}
    \cup {<<Some(s), Some(h)>> : s \in salts, h \in hashes}

GenParts ==
    {Parts(i, ps, sh[1], sh[2]) :
        i \in GenIds,
        ps \in SeqsUpTo(GenNames \X GenValues, MaxParams),
        sh \in SaltHashChoices(GenSalts, GenHashes)}

\* the inputs of parser.rs tests::test_phc and raw.rs tests::test_phc
TestId == <<"a", "b", "c", "-", "1", "2", "3">>
TestParams ==
    {<<>>,
     <<<< <<"i">>, <<"1", "0", "0", "0", "0">> >>>>,
     <<<< <<"i">>, <<"1", "0", "0", "0", "0">> >>,
       << <<"m", "e", "m">>, <<"h", "e", "a", "p">> >>>>}
TestSalt == <<"a", "b", "c", "d", "e", "f", "g">>
TestHash == <<"a", "G", "V", "s", "b", "G", "8">>
TestParts ==
    {Parts(TestId, ps, sh[1], sh[2]) :
        ps \in TestParams, sh \in SaltHashChoices({TestSalt}, {TestHash})}

\* arbitrary short texts, and the malformed input of the spec's scenarios
TextAlphabet == {"$", "a", "A", "=", ",", "_"}
Texts ==
    SeqsUpTo(TextAlphabet, MaxLen)
    \cup {<<"$", "a", "b", "c", "_", "1", "2", "3">>}

\* the Option<(T, Option<Vec<u8>>)> values handed to from_option
FromOptionInputs ==
    {None}
    \cup {Some(<<t, None>>) :
            t \in {[str |-> s] : s \in GenSalts} \cup {[bin |-> b] : b \in GenBytes}}
    \cup {Some(<<t, Some(h)>>) :
            t \in {[str |-> s] : s \in GenSalts} \cup {[bin |-> b] : b \in GenBytes},
            h \in GenBytes}

(***************************************************************************)
(* Parsing, building and displaying a record                               *)
(***************************************************************************)
ParamsIdle ==
    /\ ppc = "idle" /\ decl = <<>> /\ rawList = <<>> /\ slice = <<>>
    /\ k = 0 /\ acc = <<>> /\ extracted = None
    /\ sval = None /\ stext = None /\ sback = None

SaltIdle ==
    /\ spc = "idle" /\ orig = Ascii(<<>>) /\ cur = Ascii(<<>>)
    /\ calls = 0 /\ saltText = None

Init ==
    /\ rejectTrailingBits \in BOOLEAN
    /\ pc = "start"
    /\ raw = <<>>
    /\ gen = [kind |-> "none"]
    /\ result = None
    /\ remaining = <<>>
    /\ rendered = <<>>
    /\ ParamsIdle
    /\ SaltIdle

\* the texts handed to the parser, each with the parts it was assembled from
Inputs ==
    {[text |-> Assemble(g), gen |-> g] : g \in GenParts \cup TestParts}
    \cup {[text |-> s, gen |-> [kind |-> "text"]] : s \in Texts}

\* s.parse::<RawPHC>() / parse_phc(s); remaining is the x.0 that parse_phc's
\* map(|x| x.1) drops
Parse ==
    /\ pc = "start"
    /\ \E in \in Inputs :
           /\ raw' = in.text
           /\ gen' = in.gen
           /\ result' = from_str(in.text, rejectTrailingBits)
           /\ remaining' = (LET r == phc(in.text, rejectTrailingBits)
                            IN  IF r.ok THEN r.rest ELSE <<>>)
    /\ pc' = (IF result'.some THEN "parsed" ELSE "failed")
    /\ UNCHANGED <<rejectTrailingBits, rendered>>
    /\ UNCHANGED paramVars
    /\ UNCHANGED saltVars

\* RawPHC::from_parts(id, params, SaltAndHash::from_option(o))
Build ==
    /\ pc = "start"
    /\ \E i \in GenIds, ps \in SeqsUpTo(GenNames \X GenValues, MaxParams),
          o \in FromOptionInputs :
           /\ gen' = [kind |-> "built", option |-> o]
           /\ result' = Some(from_parts(i, ps, from_option(o)))
    /\ pc' = "built"
    /\ UNCHANGED <<rejectTrailingBits, raw, remaining, rendered>>
    /\ UNCHANGED paramVars
    /\ UNCHANGED saltVars

\* phc.to_string()
Display ==
    /\ pc \in {"parsed", "built"}
    /\ rendered' = RawPHCDisplay(result.val)
    /\ pc' = "displayed"
    /\ UNCHANGED <<rejectTrailingBits, raw, gen, result, remaining>>
    /\ UNCHANGED paramVars
    /\ UNCHANGED saltVars

Next == Parse \/ Build \/ Display

Spec == Init /\ [][Next]_vars

(***************************************************************************)
(* Parameter types: FromStr and Display of the types a GenParam is used    *)
(* with.  A value is [u |-> n], [b |-> TRUE/FALSE] or [s |-> text].        *)
(***************************************************************************)
DigitSeq == <<"0", "1", "2", "3", "4", "5", "6", "7", "8", "9">>

DigitValue(c) == (CHOOSE n \in 1..Len(DigitSeq) : DigitSeq[n] = c) - 1

\* u8::MAX and u16::MAX
MaxOf(ty) == IF ty = "u8" THEN 2^8 - 1 ELSE 2^16 - 1

\* the checked_mul / checked_add loop of from_str_radix
RECURSIVE ParseDigits(_, _, _)
ParseDigits(digits, sofar, max) ==
    IF digits = <<>> THEN Some([u |-> sofar])
    ELSE IF Head(digits) \notin Digit THEN None
    ELSE IF sofar * 10 + DigitValue(Head(digits)) > max THEN None
    ELSE ParseDigits(Tail(digits), sofar * 10 + DigitValue(Head(digits)), max)

\* <u8 as FromStr>::from_str, <u16 as FromStr>::from_str: an optional '+',
\* then one or more digits, no overflow
ParseUnsigned(text, max) ==
    IF text = <<>> THEN None
    ELSE LET digits == IF Head(text) = "+" THEN Tail(text) ELSE text
         IN  IF digits = <<>> THEN None ELSE ParseDigits(digits, 0, max)

\* <bool as FromStr>::from_str
ParseBool(text) ==
    IF text = <<"t", "r", "u", "e">> THEN Some([b |-> TRUE])
    ELSE IF text = <<"f", "a", "l", "s", "e">> THEN Some([b |-> FALSE])
    ELSE None

\* raw.parse::<T>().ok()
FromStr(ty, text) ==
    IF ty = "bool" THEN ParseBool(text)
    ELSE IF ty = "String" THEN Some([s |-> text])
    ELSE ParseUnsigned(text, MaxOf(ty))

RECURSIVE DisplayUnsigned(_)
DisplayUnsigned(n) ==
    IF n < 10 THEN <<DigitSeq[n + 1]>>
    ELSE DisplayUnsigned(n \div 10) \o <<DigitSeq[(n % 10) + 1]>>

\* value.to_string()
to_string(v) ==
    IF "u" \in DOMAIN v THEN DisplayUnsigned(v.u)
    ELSE IF "b" \in DOMAIN v
         THEN (IF v.b THEN <<"t", "r", "u", "e">> ELSE <<"f", "a", "l", "s", "e">>)
         ELSE v.s

(***************************************************************************)
(* GenParam, RawParamSlice and ParamSet (params.rs)                        *)
(***************************************************************************)
\* GenParam::new and GenParam::with_default
GenParamNew(n, ty) == [name |-> n, ty |-> ty, default |-> None]
GenParamWithDefault(n, ty, d) == [name |-> n, ty |-> ty, default |-> Some(d)]

\* Param::name, Param::default for GenParam
ParamName(p) == p.name
ParamDefault(p) == p.default

\* GenParam::extract
extract(p, text) == FromStr(p.ty, text)

\* a serialize that never elides the default
serialize_never_elides(p, v) == Some(to_string(v))

\* GenParam::serialize
serialize(p, v) ==
    IF ~p.default.some THEN Some(to_string(v))
    ELSE IF v # p.default.val THEN Some(to_string(v))
    ELSE None

\* a next_if_key that returns the matching value without consuming the pair
next_if_key_keeps_slice(sl, key) ==
    IF Len(sl) > 0 /\ sl[1][1] = key
    THEN [slice |-> sl, out |-> Some(sl[1][2])]
    ELSE [slice |-> sl, out |-> None]

\* RawParamSlice::next_if_key: the slice after the call and the Option<&str>
next_if_key(sl, key) ==
    IF Len(sl) > 0 /\ sl[1][1] = key
    THEN [slice |-> Tail(sl), out |-> Some(sl[1][2])]
    ELSE [slice |-> sl, out |-> None]

\* an extract_single that falls back to the default when extract rejects
\* the matched text
extract_single_falls_back(sl, p) ==
    LET n == next_if_key(sl, ParamName(p))
        e == IF n.out.some THEN extract(p, n.out.val) ELSE None
    IN  [slice |-> n.slice, out |-> IF e.some THEN e ELSE ParamDefault(p)]

\* RawParamSlice::extract_single: the slice after the call and the
\* Option<P::Output>
extract_single(sl, p) ==
    LET n == next_if_key(sl, ParamName(p))
    IN  [slice |-> n.slice,
         out   |-> IF ~n.out.some THEN ParamDefault(p) ELSE extract(p, n.out.val)]

(***************************************************************************)
(* Extraction and serialization scenarios                                  *)
(***************************************************************************)
MaxArity == 2
MaxRaw == 2

NameI == <<"i">>
NameMem == <<"m", "e", "m">>

\* param!(i: u16), param!(i: u16 = 7), param!(mem: bool), param!(mem = true),
\* param!(i: u8)
ParamChoices ==
    {GenParamNew(NameI, "u16"),
     GenParamWithDefault(NameI, "u16", [u |-> 7]),
     GenParamNew(NameMem, "bool"),
     GenParamWithDefault(NameMem, "bool", [b |-> TRUE]),
     GenParamNew(NameI, "u8")}

ParamSets == SeqsUpTo(ParamChoices, MaxArity) \ {<<>>}

RawTexts == {<<"1", "0", "0", "0", "0">>, <<"t", "r", "u", "e">>, <<"h", "e", "a", "p">>}

RawLists == SeqsUpTo({NameI, NameMem} \X RawTexts, MaxRaw)

\* values and parameters handed to serialize
ValuesOf(ty) ==
    IF ty = "bool" THEN {[b |-> TRUE], [b |-> FALSE]}
    ELSE IF ty = "String"
         THEN {[s |-> <<>>], [s |-> <<"h", "e", "a", "p">>], [s |-> <<"7">>]}
    ELSE IF ty = "u8" THEN {[u |-> n] : n \in {0, 7, 10, 2^8 - 1}}
    ELSE {[u |-> n] : n \in {0, 7, 10000, 2^16 - 1}}

SerializeParams ==
    UNION {{GenParamNew(n, ty)} \cup {GenParamWithDefault(n, ty, d) : d \in ValuesOf(ty)} :
            n \in {NameI, NameMem}, ty \in {"u8", "u16", "bool", "String"}}

ParserIdle ==
    /\ rejectTrailingBits = TRUE /\ pc = "idle" /\ raw = <<>>
    /\ gen = [kind |-> "none"] /\ result = None /\ remaining = <<>>
    /\ rendered = <<>>

InitParams ==
    /\ ParserIdle
    /\ ppc = "start"
    /\ decl = <<>>
    /\ rawList = <<>>
    /\ slice = <<>>
    /\ k = 0
    /\ acc = <<>>
    /\ extracted = None
    /\ sval = None
    /\ stext = None
    /\ sback = None
    /\ SaltIdle

\* extract_param_set(&param_set, raw): RawParamSlice(raw) is handed to
\* ParamSet::extract
ExtractParamSet ==
    /\ ppc = "start"
    /\ \E d \in ParamSets, r \in RawLists :
           /\ decl' = d
           /\ rawList' = r
           /\ slice' = r
    /\ k' = 0
    /\ acc' = <<>>
    /\ ppc' = "extracting"
    /\ UNCHANGED <<extracted, sval, stext, sback>>
    /\ UNCHANGED parserVars
    /\ UNCHANGED saltVars

\* one raw.extract_single($name)? of the tuple's ParamSet::extract: None
\* returns at once, the last Some returns the tuple
ExtractSingle ==
    /\ ppc = "extracting"
    /\ LET e == extract_single(slice, decl[k + 1])
       IN  /\ slice' = e.slice
           /\ k' = k + 1
           /\ acc' = (IF e.out.some THEN Append(acc, e.out.val) ELSE acc)
           /\ extracted' = (IF e.out.some /\ k + 1 = Len(decl)
                            THEN Some(Append(acc, e.out.val)) ELSE None)
           /\ ppc' = (IF ~e.out.some \/ k + 1 = Len(decl)
                      THEN "returned" ELSE "extracting")
    /\ UNCHANGED <<decl, rawList, sval, stext, sback>>
    /\ UNCHANGED parserVars
    /\ UNCHANGED saltVars

\* param.serialize(value)
Serialize ==
    /\ ppc = "start"
    /\ \E p \in SerializeParams :
           \E v \in ValuesOf(p.ty) :
               /\ decl' = <<p>>
               /\ sval' = Some(v)
               /\ stext' = serialize(p, v)
    /\ ppc' = "serialized"
    /\ UNCHANGED <<rawList, slice, k, acc, extracted, sback>>
    /\ UNCHANGED parserVars
    /\ UNCHANGED saltVars

\* param.extract(text) on the text serialize returned
ExtractSerialized ==
    /\ ppc = "serialized"
    /\ stext.some
    /\ sback' = extract(decl[1], stext.val)
    /\ ppc' = "reextracted"
    /\ UNCHANGED <<decl, rawList, slice, k, acc, extracted, sval, stext>>
    /\ UNCHANGED parserVars
    /\ UNCHANGED saltVars

NextParams == ExtractParamSet \/ ExtractSingle \/ Serialize \/ ExtractSerialized

SpecParams == InitParams /\ [][NextParams]_vars

(***************************************************************************)
(* The salt scenario: a Salt is constructed from a text or from bytes,     *)
(* as_binary is applied to it (repeatedly, it takes and returns the salt   *)
(* by value) and the salt is rendered with to_string.                      *)
(***************************************************************************)
MaxSaltLen == 3
MaxCalls == 2

SaltAlphabet == {"A", "B", "Q", "=", "!"}

\* texts with '=' padding: one byte, two bytes, five bytes
PaddedTexts ==
    {<<"Q", "Q", "=", "=">>, <<"Q", "U", "I", "=">>,
     <<"a", "G", "V", "s", "b", "G", "8", "=">>}

\* the salts of the tests of salt.rs
AsciiTestText == <<"a", "b", "c", "d", "e", "f", "g">>
SomeSaltBytes == <<115, 111, 109, 101, 32, 115, 97, 108, 116>>
SomeSaltText == <<"c", "2", "9", "t", "Z", "S", "B", "z", "Y", "W", "x", "0">>
NotBase64Text == <<"N", "o", "t", " ", "b", "a", "s", "e", "6", "4", "!", "!", "!">>

SaltBytes == GenBytes \cup {SomeSaltBytes}

SaltTexts ==
    SeqsUpTo(SaltAlphabet, MaxSaltLen)
    \cup {encode_config(b) : b \in SaltBytes}
    \cup {AsciiTestText, SomeSaltText, NotBase64Text}
    \cup PaddedTexts

SaltSources == {[str |-> t] : t \in SaltTexts} \cup {[bin |-> b] : b \in SaltBytes}

InitSalt ==
    /\ rejectTrailingBits \in BOOLEAN
    /\ pc = "idle" /\ raw = <<>>
    /\ gen = [kind |-> "none"] /\ result = None /\ remaining = <<>>
    /\ rendered = <<>>
    /\ ParamsIdle
    /\ spc = "start"
    /\ orig = Ascii(<<>>)
    /\ cur = Ascii(<<>>)
    /\ calls = 0
    /\ saltText = None

\* Salt::from(text) / Salt::from(bytes)
SaltFrom ==
    /\ spc = "start"
    /\ \E t \in SaltSources :
           /\ orig' = IntoSalt(t)
           /\ cur' = IntoSalt(t)
    /\ spc' = "made"
    /\ UNCHANGED <<calls, saltText>>
    /\ UNCHANGED parserVars
    /\ UNCHANGED paramVars

\* salt.as_binary()
AsBinary ==
    /\ spc = "made"
    /\ calls < MaxCalls
    /\ cur' = as_binary(cur, rejectTrailingBits)
    /\ calls' = calls + 1
    /\ UNCHANGED <<spc, orig, saltText>>
    /\ UNCHANGED parserVars
    /\ UNCHANGED paramVars

\* salt.to_string()
SaltToString ==
    /\ spc = "made"
    /\ saltText' = Some(SaltDisplay(cur))
    /\ spc' = "shown"
    /\ UNCHANGED <<orig, cur, calls>>
    /\ UNCHANGED parserVars
    /\ UNCHANGED paramVars

NextSalt == SaltFrom \/ AsBinary \/ SaltToString

SpecSalt == InitSalt /\ [][NextSalt]_vars

(***************************************************************************)
(* Properties of the parser and the record (checked under Spec)            *)
(***************************************************************************)
Hello == <<104, 101, 108, 108, 111>>

\* "$id" and, when there are pairs, "$k=v,k=v"
IdAndParamsText(r) ==
    <<"$">> \o r.id
    \o (IF r.params = <<>> THEN <<>> ELSE <<"$">> \o JoinPairs(r.params))

\* C1: for every input that parses, rendering the parsed record with Display
\* gives back the input, character for character.
C1_RoundTrip ==
    (pc = "displayed" /\ gen.kind \in {"parts", "text"}) => rendered = raw

\* C2: a successful parse has consumed the whole input: when characters
\* remain after id, params and salt/hash, parse_phc returns no record.
C2_ConsumesEntireInput ==
    (pc # "start" /\ gen.kind \in {"parts", "text"} /\ result.some)
        => remaining = <<>>

\* C3: Display appends nothing for Neither, '$' salt for the salt-only
\* variant and '$' salt '$' base64(hash) for Both, after the id and params.
C3_SaltHashAppended ==
    pc = "displayed" =>
        LET r  == result.val
            sh == r.salt_and_hash
        IN  rendered =
              IdAndParamsText(r)
              \o (IF sh.tag = "Neither" THEN <<>>
                  ELSE IF sh.tag = "Salt" THEN <<"$">> \o SaltDisplay(sh.salt)
                  ELSE <<"$">> \o SaltDisplay(sh.salt) \o <<"$">>
                       \o encode_config(sh.hash))

\* the input was assembled from an id, pairs, an optional salt and an
\* optional hash token that decodes
WellFormed ==
    /\ gen.kind = "parts"
    /\ gen.hash.some => decode_config(gen.hash.val, rejectTrailingBits).some

\* C4: a well-formed input '$' id ['$' pairs] ['$' salt ['$' hash]] parses to
\* exactly that id, those pairs in order, Ascii(salt) and the decoded hash;
\* without pairs the token after the id is the salt.
C4_WellFormedParses ==
    (pc # "start" /\ WellFormed) =>
        /\ result.some
        /\ result.val.id = gen.id
        /\ result.val.params = gen.params
        /\ RawPHCSalt(result.val) =
              (IF gen.salt.some THEN Some(Ascii(gen.salt.val)) ELSE None)
        /\ RawPHCHash(result.val) =
              (IF gen.hash.some
               THEN decode_config(gen.hash.val, rejectTrailingBits) ELSE None)

\* C4 witness: "$abc-123$abcdefg$aGVsbG8" parsed to no pairs, salt
\* Ascii("abcdefg") and hash b"hello"
C4_Witness ==
    /\ pc = "parsed"
    /\ raw = <<"$">> \o TestId \o <<"$">> \o TestSalt \o <<"$">> \o TestHash
    /\ result.val.params = <<>>
    /\ RawPHCSalt(result.val) = Some(Ascii(TestSalt))
    /\ RawPHCHash(result.val) = Some(Hello)

\* C5: when the token in the hash position is made of base64 characters and
\* does not decode, parsing the whole input fails.
C5_BadHashFails ==
    ( /\ pc # "start"
      /\ gen.kind = "parts"
      /\ gen.hash.some
      /\ \A n \in 1..Len(gen.hash.val) : is_base_64_char(gen.hash.val[n])
      /\ ~decode_config(gen.hash.val, rejectTrailingBits).some )
        => ~result.some

\* C6: from_option maps no pair to Neither, (salt, no hash) to the salt-only
\* variant and (salt, hash) to Both; and every record, built or parsed, has a
\* hash only if it has a salt.
C6_NoHashWithoutSalt ==
    /\ result.some => (RawPHCHash(result.val).some => RawPHCSalt(result.val).some)
    /\ gen.kind = "built" =>
          LET o  == gen.option
              sh == result.val.salt_and_hash
          IN  IF ~o.some THEN sh = Neither
              ELSE IF ~o.val[2].some
                   THEN /\ sh.tag = "Salt"
                        /\ SaltOf(sh) = Some(IntoSalt(o.val[1]))
                        /\ HashOf(sh) = None
                   ELSE /\ sh.tag = "Both"
                        /\ SaltOf(sh) = Some(IntoSalt(o.val[1]))
                        /\ HashOf(sh) = Some(o.val[2].val)

\* C6 witness: a record built from (binary salt, hash) holds both
C6_Witness ==
    /\ pc = "built"
    /\ gen.option = Some(<<[bin |-> <<104, 105>>], Some(<<0>>)>>)
    /\ RawPHCSalt(result.val) = Some(Binary(<<104, 105>>))
    /\ RawPHCHash(result.val) = Some(<<0>>)

(***************************************************************************)
(* Properties of parameter extraction (checked under SpecParams)           *)
(***************************************************************************)
\* the cursor after the first n declared parameters, by the rule: advance by
\* one exactly when the pair at the cursor has the declared name
RECURSIVE CursorAfter(_, _, _)
CursorAfter(d, r, n) ==
    IF n = 0 THEN 0
    ELSE LET c == CursorAfter(d, r, n - 1)
         IN  IF c < Len(r) /\ r[c + 1][1] = d[n].name THEN c + 1 ELSE c

\* what the n-th declared parameter resolves to under that rule
Resolved(d, r, n) ==
    LET c == CursorAfter(d, r, n - 1)
    IN  IF c < Len(r) /\ r[c + 1][1] = d[n].name
        THEN extract(d[n], r[c + 1][2])
        ELSE d[n].default

\* C7: extraction follows the cursor algorithm: after n declared parameters
\* the consumed prefix is the cursor of the rule, the values so far are the
\* matched pairs' extracted texts or the defaults, and a result is the tuple
\* of these values in declaration order.
C7_CursorAlgorithm ==
    ppc \in {"extracting", "returned"} =>
        /\ Len(rawList) - Len(slice) = CursorAfter(decl, rawList, k)
        /\ slice = SubSeq(rawList, Len(rawList) - Len(slice) + 1, Len(rawList))
        /\ \A n \in 1..Len(acc) : Some(acc[n]) = Resolved(decl, rawList, n)
        /\ extracted.some =>
              /\ Len(extracted.val) = Len(decl)
              /\ \A n \in 1..Len(decl) :
                    Some(extracted.val[n]) = Resolved(decl, rawList, n)

\* C7 witness: (i: u16, mem = true) against [("i","10000")] gives (10000, true)
C7_Witness ==
    /\ ppc = "returned"
    /\ decl = <<GenParamNew(NameI, "u16"),
                GenParamWithDefault(NameMem, "bool", [b |-> TRUE])>>
    /\ rawList = << <<NameI, <<"1", "0", "0", "0", "0">> >> >>
    /\ extracted = Some(<<[u |-> 10000], [b |-> TRUE]>>)

\* C8: extraction is all-or-nothing: there is a result exactly when every
\* declared parameter resolves, and a result holds a value for each of them.
C8_AllOrNothing ==
    ppc = "returned" =>
        /\ extracted.some <=>
              \A n \in 1..Len(decl) : Resolved(decl, rawList, n).some
        /\ extracted.some => Len(extracted.val) = Len(decl)

\* C8 witness: (i: u16, mem: bool = true) against
\* [("i","10000"),("mem","heap")] gives nothing
C8_Witness ==
    /\ ppc = "returned"
    /\ decl = <<GenParamNew(NameI, "u16"),
                GenParamWithDefault(NameMem, "bool", [b |-> TRUE])>>
    /\ rawList = << <<NameI, <<"1", "0", "0", "0", "0">> >>,
                    <<NameMem, <<"h", "e", "a", "p">> >> >>
    /\ ~extracted.some

\* r holds every declared name once, with a text its parameter accepts, in
\* an order other than the declared one
Reordered(d, r) ==
    /\ Len(d) >= 2
    /\ Len(r) = Len(d)
    /\ \A m, n \in 1..Len(d) : d[m].name = d[n].name => m = n
    /\ \A n \in 1..Len(d) :
          \E m \in 1..Len(r) : r[m][1] = d[n].name /\ extract(d[n], r[m][2]).some
    /\ \E n \in 1..Len(d) : r[n][1] # d[n].name

\* C9: a raw list holding all declared names with well-formed values in an
\* order other than the declared one yields no result.
C9_ReorderedRejected ==
    (ppc = "returned" /\ Reordered(decl, rawList)) => ~extracted.some

\* C10: with a default d, serialize(v) is nothing exactly when v = d and the
\* rendered text of v otherwise; without default it is always the rendered
\* text; and extract of a returned text is v.
C10_DefaultElision ==
    ppc \in {"serialized", "reextracted"} =>
        LET p == decl[1]
            v == sval.val
        IN  /\ p.default.some => (~stext.some <=> v = p.default.val)
            /\ ~p.default.some => stext.some
            /\ stext.some => stext.val = to_string(v)
            /\ ppc = "reextracted" => sback = Some(v)

\* C10 witness: mem = true given false serializes to "false", which extracts
\* to false
C10_Witness ==
    /\ ppc = "reextracted"
    /\ decl = <<GenParamWithDefault(NameMem, "bool", [b |-> TRUE])>>
    /\ sval = Some([b |-> FALSE])
    /\ stext = Some(<<"f", "a", "l", "s", "e">>)
    /\ sback = Some([b |-> FALSE])

\* C12: extract_param_set returns a result only when every pair of the raw
\* list has been consumed by some declared parameter: whenever it has returned
\* Some, no pair (an undeclared name, a duplicate name, a pair skipped by a
\* defaulted parameter) is left at the cursor.
C12_AllPairsConsumed ==
    (ppc = "returned" /\ extracted.some) => slice = <<>>

(***************************************************************************)
(* Properties of the salt (checked under SpecSalt)                         *)
(***************************************************************************)
\* the text is made of base64 characters and '=' only and its length is not
\* 1 mod 4
Base64Shaped(text) ==
    /\ \A n \in 1..Len(text) : is_base_64_char(text[n]) \/ text[n] = "="
    /\ Len(text) % 4 # 1

\* C11: as_binary never fails and, however often it is applied, a Binary
\* salt stays the same value, an Ascii salt whose text is the unpadded
\* standard base64 of some bytes (more generally: whose text decodes) becomes
\* Binary of those bytes, and an Ascii salt whose text does not decode (a
\* character that is neither of the alphabet nor '=', a length of 1 mod 4)
\* stays the same Ascii value; the rendering of a salt is its text verbatim
\* for Ascii and the unpadded base64 of its bytes for Binary.  A text with
\* '=' padding decodes too: "QQ==" becomes the byte 65.
C11_AsBinary ==
    /\ (spc \in {"made", "shown"} /\ calls >= 1) =>
           /\ orig.tag = "Binary" => cur = orig
           /\ orig.tag = "Ascii" =>
                  LET d == decode_config(orig.text, rejectTrailingBits)
                  IN  /\ \A b \in SaltBytes :
                             orig.text = encode_config(b) => cur = Binary(b)
                      /\ d.some => cur = Binary(d.val)
                      /\ ~d.some => cur = orig
                      /\ ~Base64Shaped(orig.text) => cur = orig
                      /\ orig.text = <<"Q", "Q", "=", "=">> => cur = Binary(<<65>>)
    /\ (spc = "shown") =>
           /\ saltText.some
           /\ cur.tag = "Ascii" => saltText.val = cur.text
           /\ cur.tag = "Binary" => saltText.val = encode_config(cur.bytes)
           /\ (calls = 0 /\ orig = Binary(SomeSaltBytes)) => saltText.val = SomeSaltText
           /\ (calls = 0 /\ orig = Ascii(AsciiTestText)) => saltText.val = AsciiTestText

\* "c29tZSBzYWx0" has been turned into the bytes of "some salt" by two
\* as_binary calls and renders as the same text again
C11_Witness ==
    /\ spc = "shown"
    /\ calls = 2
    /\ orig = Ascii(SomeSaltText)
    /\ cur = Binary(SomeSaltBytes)
    /\ saltText = Some(SomeSaltText)

=============================================================================
